---------------------------- MODULE Spec2Model ----------------------------
(***************************************************************************)
(* A model of the gdb-heap command layer (src/heap/commands.py): the       *)
(* commands registered with the debugger, the process-wide state they      *)
(* read and write (the arena list with its current selection, the history  *)
(* log of snapshots), what each invocation prints, and which exception,    *)
(* if any, leaves its invoke.                                              *)
(***************************************************************************)
EXTENDS Integers, Sequences, FiniteSets, TLC

VARIABLES
    arenas,      \* glibc_arenas.arenas: the arena list, each arena its chunks
    cur_arena,   \* glibc_arenas.cur_arena, as a 0-based index into arenas
    snapshots,   \* history.snapshots, in capture order
    cmd,         \* the last invocation: command name, arguments, injected fault
    out,         \* what that invocation printed, line by line
    raised       \* the exception that left its invoke, "none" when it returned

vars == <<arenas, cur_arena, snapshots, cmd, out, raised>>

----------------------------------------------------------------------------
(* Bounds *)

MaxChunks == 3
MaxSearchChunks == 3
MaxHistory == 3
MaxDump == 70

----------------------------------------------------------------------------
(* The target: categories, chunks, arenas *)

None == "None"

\* Strings in lexicographic order (Python's str comparison on these values).
StrOrder == <<"", "None", "data", "dict", "python", "str", "uncategorized">>

StrRank(s) == CHOOSE i \in 1..Len(StrOrder) : StrOrder[i] = s

Category(domain, kind, detail) == [domain |-> domain, kind |-> kind, detail |-> detail]

Categories ==
    { Category("python", "dict", None),
      Category("python", "str", None),
      Category("uncategorized", "data", None) }

NoCategory == Category("", "", None)

Sizes == {16, 32}

\* What one chunk header can hold: a size, the in-use bit, and (for a chunk in
\* use) the category its content is recognised as.
ChunkKinds ==
    { [size |-> s, inuse |-> TRUE, category |-> c] : s \in Sizes, c \in Categories }
    \cup { [size |-> s, inuse |-> FALSE, category |-> NoCategory] : s \in Sizes }

RECURSIVE SumSizes(_, _)
SumSizes(ks, n) == IF n = 0 THEN 0 ELSE SumSizes(ks, n - 1) + ks[n].size

\* A well-formed arena: chunks contiguous from the arena start, each beginning
\* where its predecessor ends.
MkArena(start, ks) ==
    [i \in 1..Len(ks) |->
        [address  |-> start + SumSizes(ks, i - 1),
         size     |-> ks[i].size,
         inuse    |-> ks[i].inuse,
         category |-> ks[i].category]]

\* Every well-formed arena of at most n chunks, at address 0x1000.
Layouts(n) == UNION { { MkArena(4096, ks) : ks \in [1..k -> ChunkKinds] } : k \in 1..n }

\* The arena of the spec's scenario and a second, per-thread arena.
MainArena ==
    MkArena(4096, << [size |-> 16, inuse |-> TRUE,  category |-> Category("python", "str", None)],
                     [size |-> 32, inuse |-> FALSE, category |-> NoCategory],
                     [size |-> 16, inuse |-> TRUE,  category |-> Category("python", "dict", None)] >>)

ThreadArena ==
    MkArena(8192, << [size |-> 32, inuse |-> TRUE, category |-> Category("uncategorized", "data", None)],
                     [size |-> 32, inuse |-> TRUE, category |-> Category("python", "str", None)],
                     [size |-> 16, inuse |-> TRUE, category |-> Category("uncategorized", "data", None)] >>)

ms == arenas[cur_arena + 1]

iter_chunks(arena) == arena

RECURSIVE SelectSeqRec(_, _, _)
SelectSeqRec(s, n, keep) ==
    IF n = 0 THEN <<>>
    ELSE IF keep[n] THEN Append(SelectSeqRec(s, n - 1, keep), s[n])
         ELSE SelectSeqRec(s, n - 1, keep)

iter_free_chunks(arena) ==
    SelectSeqRec(arena, Len(arena), [i \in 1..Len(arena) |-> ~arena[i].inuse])

Usage(chunk) == [size |-> chunk.size, category |-> chunk.category]

\* The usages the traversal yields: one per chunk in use, in address order.
lazily_get_usage_list(arena) ==
    LET used == SelectSeqRec(arena, Len(arena), [i \in 1..Len(arena) |-> arena[i].inuse])
    IN  [i \in 1..Len(used) |-> Usage(used[i])]

----------------------------------------------------------------------------
(* Exceptions and the two decorators every heap command is wrapped in *)

NoFault == [kind |-> "none", phase |-> "none", at |-> 0]

Fault(kind, phase, at) == [kind |-> kind, phase |-> phase, at |-> at]

\* The recoverable errors the collaborators raise.
Recoverable == {"MissingDebuginfo", "gdb.error", "gdb.MemoryError"}

Result(o, r) == [out |-> o, raised |-> r]

Line(tag) == [tag |-> tag]

target_running(r) ==
    IF r.raised \in {"gdb.error", "gdb.MemoryError", "NameError"}
    THEN Result(Append(r.out, Line("Gdb error. Is the target running?")), "none")
    ELSE r

need_debuginfo(r) ==
    IF r.raised = "MissingDebuginfo"
    THEN Result(Append(r.out, Line("Missing debuginfo")), "none")
    ELSE r

Decorated(r) == need_debuginfo(target_running(r))

----------------------------------------------------------------------------
(* Python dict (insertion-ordered) and sorted() *)

EmptyDict == [keys |-> <<>>, val |-> <<>>]

Has(d, k) == \E i \in 1..Len(d.keys) : d.keys[i] = k

KeyIndex(d, k) == CHOOSE i \in 1..Len(d.keys) : d.keys[i] = k

Get(d, k) == d.val[KeyIndex(d, k)]

\* "if k in d: d[k] += v else: d[k] = v"
DictAddTo(d, k, v) ==
    IF Has(d, k)
    THEN [d EXCEPT !.val[KeyIndex(d, k)] = @ + v]
    ELSE [keys |-> Append(d.keys, k), val |-> Append(d.val, v)]

\* Insert x into the descending sequence s after every element whose key is
\* not smaller: equal keys keep the order they arrived in.
RECURSIVE InsertDesc(_, _, _)
InsertDesc(s, x, d) ==
    IF s = <<>> THEN <<x>>
    ELSE IF Get(d, Head(s)) >= Get(d, x) THEN <<Head(s)>> \o InsertDesc(Tail(s), x, d)
         ELSE <<x>> \o s

RECURSIVE SortedDescPrefix(_, _)
SortedDescPrefix(d, n) ==
    IF n = 0 THEN <<>> ELSE InsertDesc(SortedDescPrefix(d, n - 1), d.keys[n], d)

\* A mutation of the sort: the keys as the dict iterates them, unsorted.
dict_order(d) == d.keys

\* sorted(d.keys(), key=d.get, reverse=True): a stable sort, so keys with equal
\* values stay in the dict's (insertion) order.
sorted_reverse(d) == SortedDescPrefix(d, Len(d.keys))

----------------------------------------------------------------------------
(* heap: the report by category (Heap.invoke) *)

NoTotals ==
    [total_by_category |-> EmptyDict, count_by_category |-> EmptyDict,
     total_size |-> 0, total_count |-> 0]

\* The j-th (0..3) of the four updates the loop body makes for usage u.
AggStep(st, u, j) ==
    CASE j = 0 -> [st EXCEPT !.total_size = @ + u.size]
      [] j = 1 -> [st EXCEPT !.total_by_category = DictAddTo(@, u.category, u.size)]
      [] j = 2 -> [st EXCEPT !.total_count = @ + 1]
      [] OTHER -> [st EXCEPT !.count_by_category = DictAddTo(@, u.category, 1)]

\* The locals after the first m updates of the loop over usage_list.
RECURSIVE Aggregate(_, _)
Aggregate(usage_list, m) ==
    IF m = 0 THEN NoTotals
    ELSE AggStep(Aggregate(usage_list, m - 1), usage_list[((m - 1) \div 4) + 1], (m - 1) % 4)

Detail(category) == IF category.detail = None THEN "" ELSE category.detail

Row(st, category) ==
    [tag    |-> "ROW",
     domain |-> category.domain,
     kind   |-> category.kind,
     detail |-> Detail(category),
     count  |-> Get(st.count_by_category, category),
     size   |-> Get(st.total_by_category, category)]

TotalRow(st) == [tag |-> "TOTAL", count |-> st.total_count, size |-> st.total_size]

\* Lines 89-104: the table is built row by row and written only at the end, so
\* a KeyError while building it prints nothing.
HeapTable(st) ==
    LET order == sorted_reverse(st.total_by_category)
    IN  IF \E i \in 1..Len(order) : ~Has(st.count_by_category, order[i])
        THEN Result(<<>>, "KeyError")
        ELSE Result([i \in 1..Len(order) |-> Row(st, order[i])] \o <<TotalRow(st)>>, "none")

\* Where a fault can arrive in 'heap': while the usage list is materialised
\* (after `at` usages were produced), or inside the loop (after `at` updates;
\* an error only where ensure_category is called, an interrupt anywhere).
HeapFaults(arena) ==
    LET n == Len(lazily_get_usage_list(arena))
    IN  {NoFault}
        \cup { Fault(k, "traversal", i) : k \in Recoverable \cup {"KeyboardInterrupt"}, i \in 0..n }
        \cup { Fault("KeyboardInterrupt", "aggregation", m) : m \in 0..(4 * n) }
        \cup { Fault(k, "aggregation", 4 * i) : k \in Recoverable, i \in 0..(n - 1) }

HeapBody(arena, f) ==
    LET usage_list == lazily_get_usage_list(arena)
    IN  CASE f.kind = "none" -> HeapTable(Aggregate(usage_list, 4 * Len(usage_list)))
          [] f.kind = "KeyboardInterrupt" /\ f.phase = "traversal" -> HeapTable(NoTotals)
          [] f.kind = "KeyboardInterrupt" /\ f.phase = "aggregation" ->
                HeapTable(Aggregate(usage_list, f.at))
          [] OTHER -> Result(<<>>, f.kind)

Invoke(name, args, f, r) ==
    /\ cmd' = [name |-> name, args |-> args, fault |-> f]
    /\ out' = r.out
    /\ raised' = r.raised

NoArgs == [text |-> ""]

Heap(f) ==
    /\ Invoke("heap", NoArgs, f, Decorated(HeapBody(ms, f)))
    /\ UNCHANGED <<arenas, cur_arena, snapshots>>

----------------------------------------------------------------------------
(* heap sizes, heap used, heap free, heap all: the chunk listings *)

AnyFault == Recoverable \cup {"KeyboardInterrupt"}

\* Where a fault can arrive in a loop over a sequence: after `at` of its
\* elements were produced and handled.
LoopFaults(chunks, kinds) ==
    {NoFault} \cup { Fault(k, "traversal", i) : k \in kinds, i \in 0..Len(chunks) }

Prefix(chunks, f) == IF f.kind = "none" THEN chunks ELSE SubSeq(chunks, 1, f.at)

NoSizes == [chunks_by_size |-> EmptyDict, num_chunks |-> 0, total_size |-> 0]

RECURSIVE CountSizes(_, _)
CountSizes(chunks, n) ==
    IF n = 0 THEN NoSizes
    ELSE LET st == CountSizes(chunks, n - 1)
             chunk == chunks[n]
         IN  IF ~chunk.inuse THEN st
             ELSE [chunks_by_size |-> DictAddTo(st.chunks_by_size, chunk.size, 1),
                   num_chunks     |-> st.num_chunks + 1,
                   total_size     |-> st.total_size + chunk.size]

\* sorted(keys, key=count * size): ascending and stable.
RECURSIVE InsertByAllocated(_, _, _)
InsertByAllocated(s, x, d) ==
    IF s = <<>> THEN <<x>>
    ELSE IF Get(d, Head(s)) * Head(s) <= Get(d, x) * x
         THEN <<Head(s)>> \o InsertByAllocated(Tail(s), x, d)
         ELSE <<x>> \o s

RECURSIVE SortedByAllocated(_, _)
SortedByAllocated(d, n) ==
    IF n = 0 THEN <<>> ELSE InsertByAllocated(SortedByAllocated(d, n - 1), d.keys[n], d)

SizesTable(st) ==
    LET order == SortedByAllocated(st.chunks_by_size, Len(st.chunks_by_size.keys))
    IN  [i \in 1..Len(order) |->
            [tag   |-> "ROW",
             size  |-> order[i],
             count |-> Get(st.chunks_by_size, order[i]),
             allocated |-> Get(st.chunks_by_size, order[i]) * order[i]]]
        \o <<[tag |-> "TOTAL", count |-> st.num_chunks, size |-> st.total_size]>>

HeapSizesBody(arena, f) ==
    LET seen == Prefix(iter_chunks(arena), f)
    IN  IF f.kind \in {"none", "KeyboardInterrupt"}
        THEN Result(SizesTable(CountSizes(seen, Len(seen))), "none")
        ELSE Result(<<>>, f.kind)

HeapSizes(f) ==
    /\ Invoke("heap sizes", NoArgs, f, Decorated(HeapSizesBody(ms, f)))
    /\ UNCHANGED <<arenas, cur_arena, snapshots>>

\* chunk.as_mem(): the user pointer, past the two size_t words of the header.
as_mem(chunk) == chunk.address + 16

\* One line of 'heap used' / 'heap free': enumerate() index i, the memory
\* range, the size and the category.
MemLine(tag, i, chunk) ==
    [tag   |-> tag,
     i     |-> i,
     start |-> as_mem(chunk),
     end   |-> as_mem(chunk) + chunk.size - 1,
     size  |-> chunk.size,
     inuse |-> chunk.inuse]

\* One line of 'heap all' / 'heap search': the chunk's own address range.
ChunkLine(tag, i, chunk) ==
    [tag   |-> tag,
     i     |-> i,
     start |-> chunk.address,
     end   |-> chunk.address + chunk.size - 1,
     size  |-> chunk.size,
     inuse |-> chunk.inuse]

RECURSIVE UsedLines(_, _)
UsedLines(chunks, n) ==
    IF n = 0 THEN <<>>
    ELSE IF chunks[n].inuse
         THEN Append(UsedLines(chunks, n - 1), MemLine("USED", n - 1, chunks[n]))
         ELSE UsedLines(chunks, n - 1)

HeapUsedBody(arena, f) ==
    LET seen == Prefix(iter_chunks(arena), f)
        printed == UsedLines(seen, Len(seen))
    IN  CASE f.kind = "none" -> Result(printed, "none")
          [] f.kind = "KeyboardInterrupt" -> Result(Append(printed, Line("Interrupted")), "none")
          [] OTHER -> Result(printed, f.kind)

HeapUsed(f) ==
    /\ Invoke("heap used", NoArgs, f, Decorated(HeapUsedBody(ms, f)))
    /\ UNCHANGED <<arenas, cur_arena, snapshots>>

RECURSIVE SumChunkSizes(_, _)
SumChunkSizes(chunks, n) ==
    IF n = 0 THEN 0 ELSE SumChunkSizes(chunks, n - 1) + chunks[n].size

\* No handler for KeyboardInterrupt here: lines already printed stay printed,
\* the exception leaves the loop and "Total size" is never printed.
HeapFreeBody(arena, f) ==
    LET seen == Prefix(iter_free_chunks(arena), f)
        printed == [i \in 1..Len(seen) |-> MemLine("FREE", i - 1, seen[i])]
    IN  IF f.kind = "none"
        THEN Result(Append(printed, [tag |-> "Total size",
                                     size |-> SumChunkSizes(seen, Len(seen))]), "none")
        ELSE Result(printed, f.kind)

HeapFree(f) ==
    /\ Invoke("heap free", NoArgs, f, Decorated(HeapFreeBody(ms, f)))
    /\ UNCHANGED <<arenas, cur_arena, snapshots>>

HeapAllBody(arena, f) ==
    LET seen == Prefix(iter_chunks(arena), f)
    IN  Result([i \in 1..Len(seen) |-> ChunkLine("CHUNK", i - 1, seen[i])], f.kind)

HeapAll(f) ==
    /\ Invoke("heap all", NoArgs, f, Decorated(HeapAllBody(ms, f)))
    /\ UNCHANGED <<arenas, cur_arena, snapshots>>

----------------------------------------------------------------------------
(* heap label, heap log, heap diff: the history *)

RECURSIVE SumUsage(_, _)
SumUsage(usage_list, n) ==
    IF n = 0 THEN 0 ELSE SumUsage(usage_list, n - 1) + usage_list[n].size

\* Snapshot.current(name): one categorized traversal of the current arena,
\* summarised and stamped; nothing is appended.
Snapshot_current(name, time, arena) ==
    LET usage_list == lazily_get_usage_list(arena)
    IN  [name  |-> name,
         time  |-> time,
         count |-> Len(usage_list),
         size  |-> SumUsage(usage_list, Len(usage_list))]

\* history.add(name): the same capture, appended to the log.
history_add(h, name, arena) == Append(h, Snapshot_current(name, Len(h) + 1, arena))

\* Diff(a, b).stats(): the change in count and bytes from a to b.
Diff_stats(a, b) == [count |-> b.count - a.count, size |-> b.size - a.size]

Summary(s) == [tag |-> "Summary", name |-> s.name, count |-> s.count, size |-> s.size]

\* The capture is one traversal; a fault during it leaves before the append.
HeapLabelBody(h, name, arena, f) ==
    IF f.kind = "none"
    THEN Result(<<Summary(Snapshot_current(name, Len(h) + 1, arena))>>, "none")
    ELSE Result(<<>>, f.kind)

HeapLabelHistory(h, name, arena, f) ==
    IF f.kind = "none" THEN history_add(h, name, arena) ELSE h

HeapLabel(name, f) ==
    /\ Len(snapshots) < MaxHistory
    /\ Invoke("heap label", [text |-> name], f, Decorated(HeapLabelBody(snapshots, name, ms, f)))
    /\ snapshots' = HeapLabelHistory(snapshots, name, ms, f)
    /\ UNCHANGED <<arenas, cur_arena>>

\* A mutation of the log entry: the diff is taken with the operands swapped.
LogEntrySwapped(h, i) ==
    LET s == h[i]
    IN  << [tag |-> "Label", i |-> i, name |-> s.name, time |-> s.time,
            count |-> s.count, size |-> s.size] >>
        \o (IF i > 1
            THEN << [tag |-> "Diff", i |-> i, stats |-> Diff_stats(s, h[i - 1])] >>
            ELSE <<>>)

\* What 'heap log' prints for label i (1-based): the entry, and for i > 1 the
\* statistics of Diff(prev, s) with prev the entry before it.
LogEntry(h, i) ==
    LET s == h[i]
    IN  << [tag |-> "Label", i |-> i, name |-> s.name, time |-> s.time,
            count |-> s.count, size |-> s.size] >>
        \o (IF i > 1
            THEN << [tag |-> "Diff", i |-> i, stats |-> Diff_stats(h[i - 1], s)] >>
            ELSE <<>>)

\* range(len, 0, -1): the entries for labels n, n-1, ..., down to label `last`.
RECURSIVE LogLines(_, _, _)
LogLines(h, i, last) ==
    IF i < last THEN <<>> ELSE LogEntry(h, i) \o LogLines(h, i - 1, last)

HeapLogBody(h, f) ==
    IF Len(h) = 0 THEN Result(<<Line("(no history)")>>, "none")
    ELSE IF f.kind = "none" THEN Result(LogLines(h, Len(h), 1), "none")
    ELSE Result(LogLines(h, Len(h), Len(h) - f.at + 1), f.kind)

HeapLog(f) ==
    /\ Len(snapshots) = 0 => f = NoFault
    /\ Invoke("heap log", NoArgs, f, Decorated(HeapLogBody(snapshots, f)))
    /\ UNCHANGED <<arenas, cur_arena, snapshots>>

\* The per-category change lines (d.as_changes()) follow the statistics; they
\* are computed by the Diff collaborator and are not part of this record.
HeapDiffBody(h, arena, f) ==
    IF Len(h) = 0 THEN Result(<<Line("(no history)")>>, "none")
    ELSE IF f.kind # "none" THEN Result(<<>>, f.kind)
    ELSE LET prev == h[Len(h)]
             curr == Snapshot_current("current", Len(h) + 1, arena)
         IN  Result(<< [tag |-> "Changes", from |-> prev.name, to |-> curr.name,
                        stats |-> Diff_stats(prev, curr)] >>, "none")

\* A mutation of heap diff: the current state is captured with history.add.
HeapDiffHistoryAdds(h, arena, f) ==
    IF Len(h) = 0 \/ f.kind # "none" THEN h ELSE history_add(h, "current", arena)

\* heap diff reads the log and captures the current state with
\* Snapshot.current: the log stays as it is.
HeapDiffHistory(h, arena, f) == h

HeapDiff(f) ==
    /\ Len(snapshots) = 0 => f = NoFault
    /\ Invoke("heap diff", NoArgs, f, Decorated(HeapDiffBody(snapshots, ms, f)))
    /\ snapshots' = HeapDiffHistory(snapshots, ms, f)
    /\ UNCHANGED <<arenas, cur_arena>>

----------------------------------------------------------------------------
(* heap select *)

\* do_query(args): a malformed query raises ParserError before any chunk is
\* read; a well-formed one traverses the heap and prints its matches.
HeapSelectBody(query, f) ==
    LET r == IF query = "malformed" THEN Result(<<>>, "ParserError")
             ELSE IF f.kind = "none" THEN Result(<<Line("query result")>>, "none")
             ELSE Result(<<>>, f.kind)
    IN  IF r.raised = "ParserError"
        THEN Result(Append(r.out, Line("ParserError")), "none")
        ELSE r

HeapSelect(query, f) ==
    /\ query = "malformed" => f = NoFault
    /\ Invoke("heap select", [text |-> query], f, Decorated(HeapSelectBody(query, f)))
    /\ UNCHANGED <<arenas, cur_arena, snapshots>>

----------------------------------------------------------------------------
(* heap search *)

\* What lies past the last chunk of the arena: not a chunk of the arena. Its
\* header is unreadable, or reads as some size and in-use bit.
Unreadable == [readable |-> FALSE, size |-> 0, inuse |-> FALSE]

BeyondKinds ==
    {Unreadable} \cup { [readable |-> TRUE, size |-> s2, inuse |-> b] : s2 \in Sizes, b \in BOOLEAN }

\* chunk.next_chunk(): the chunk at address + size.
next_chunk(chunks, i, beyond) ==
    IF i < Len(chunks) THEN chunks[i + 1]
    ELSE [address  |-> chunks[i].address + chunks[i].size,
          size     |-> beyond.size,
          inuse    |-> beyond.inuse,
          category |-> NoCategory]

NextReadable(chunks, i, beyond) == i < Len(chunks) \/ beyond.readable

\* A mutation of the containment test: the end of the chunk is included.
ContainsInclusive(chunk, addr) == addr >= chunk.address /\ addr <= chunk.address + chunk.size

Contains(chunk, addr) == addr >= chunk.address /\ addr < chunk.address + chunk.size

\* Lines 364-373: the NEXT entry takes its start and its size from
\* chunk_after, its end from chunk_after's start and the size of the chunk
\* found, and its kind from the chunk found.
NextLine(i, chunk, chunk_after) ==
    [tag   |-> "NEXT",
     i     |-> i,
     start |-> chunk_after.address,
     end   |-> chunk_after.address + chunk.size - 1,
     size  |-> chunk_after.size,
     inuse |-> chunk.inuse]

\* output_str after the first n chunks of the loop.
RECURSIVE SearchOutput(_, _, _)
SearchOutput(chunks, n, args) ==
    IF n = 0 THEN <<>>
    ELSE SearchOutput(chunks, n - 1, args)
         \o (IF Contains(chunks[n], args.addr)
             THEN <<ChunkLine("BLOCK", n - 1, chunks[n])>>
                  \o (IF args.after
                      THEN <<NextLine(n - 1, chunks[n], next_chunk(chunks, n, args.beyond))>>
                      ELSE <<>>)
             ELSE <<>>)

\* Whether the loop reads the header past the arena's last chunk and fails.
SearchReadFails(chunks, args) ==
    /\ args.after
    /\ \E n \in 1..Len(chunks) :
          Contains(chunks[n], args.addr) /\ ~NextReadable(chunks, n, args.beyond)

\* output_str is printed once, after the loop: a fault inside the loop leaves
\* with nothing of it printed.
HeapSearchBody(arena, args, f) ==
    CASE args.kind = "usage" -> Result(<<>>, "none")
      [] args.kind = "text" -> Result(<<>>, "ValueError")
      [] f.kind # "none" -> Result(<<>>, f.kind)
      [] SearchReadFails(iter_chunks(arena), args) -> Result(<<>>, "gdb.MemoryError")
      [] OTHER ->
           Result(SearchOutput(iter_chunks(arena), Len(iter_chunks(arena)), args), "none")

SearchArgs(addr, before, after, beyond) ==
    [kind |-> "addr", addr |-> addr, before |-> before, after |-> after, beyond |-> beyond]

\* The addresses worth asking for: below the arena, each chunk's first and
\* last byte, one past the arena's end, and far outside (0x5000).
Probes(arena) ==
    {arena[1].address - 8, arena[Len(arena)].address + arena[Len(arena)].size, 20480}
    \cup { arena[i].address : i \in 1..Len(arena) }
    \cup { arena[i].address + arena[i].size - 1 : i \in 1..Len(arena) }

\* The header past the arena matters only when the successor of the last chunk
\* is asked for.
BeyondFor(arena, addr, after) ==
    IF after /\ Contains(arena[Len(arena)], addr) THEN BeyondKinds ELSE {Unreadable}

SearchInputs(arena) ==
    { SearchArgs(a, b, c, y) : a \in Probes(arena), b \in BOOLEAN, c \in BOOLEAN, y \in BeyondKinds }

BadArgs == { [kind |-> "usage", addr |-> 0, before |-> FALSE, after |-> FALSE, beyond |-> Unreadable],
             [kind |-> "text", addr |-> 0, before |-> FALSE, after |-> FALSE, beyond |-> Unreadable] }

HeapSearch(args, f) ==
    /\ args.kind = "addr" => args.beyond \in BeyondFor(ms, args.addr, args.after)
    /\ args.kind # "addr" => f = NoFault
    /\ Invoke("heap search", args, f, Decorated(HeapSearchBody(ms, args, f)))
    /\ UNCHANGED <<arenas, cur_arena, snapshots>>

----------------------------------------------------------------------------
(* heap chunk, objdump, hexdump *)

HeapChunkBody(text) == Result(<<[tag |-> "args", text |-> text]>>, "none")

HeapChunk(text) ==
    /\ Invoke("heap chunk", [text |-> text], NoFault, Decorated(HeapChunkBody(text)))
    /\ UNCHANGED <<arenas, cur_arena, snapshots>>

SIZE_SZ == 8

\* range(addr, addr + total_size, SIZE_SZ)
RECURSIVE Range(_, _, _)
Range(from, to, step) ==
    IF from >= to THEN <<>> ELSE <<from>> \o Range(from + step, to, step)

\* The bare "except: print; raise" reports and re-raises whatever a
\* dereference raised, an interrupt included. (The print call at line 427
\* lacks its closing parenthesis; it is read here as the print it starts.)
ObjdumpBody(args, f) ==
    LET words == Range(args.addr, args.addr + args.total_size, SIZE_SZ)
        seen  == Prefix(words, f)
        lines == [i \in 1..Len(seen) |-> [tag |-> "DEREF", start |-> seen[i]]]
    IN  CASE args.kind = "usage" -> Result(<<>>, "none")
          [] args.kind = "text" -> Result(<<>>, "ValueError")
          [] f.kind = "none" -> Result(lines, "none")
          [] f.phase = "setup" -> Result(<<>>, f.kind)
          [] OTHER -> Result(Append(lines, Line("Error accessing memory")), f.kind)

ObjdumpFaults(args) ==
    IF args.kind # "addr" THEN {NoFault} ELSE
    {NoFault}
    \cup { Fault(k, "setup", 0) : k \in Recoverable }
    \cup { Fault(k, "traversal", i) : k \in AnyFault,
           i \in 0..(Len(Range(args.addr, args.addr + args.total_size, SIZE_SZ)) - 1) }

Objdump(args, f) ==
    /\ Invoke("objdump", args, f, Decorated(ObjdumpBody(args, f)))
    /\ UNCHANGED <<arenas, cur_arena, snapshots>>

LineWidth(wide) == IF wide THEN 32 ELSE 16

\* The full lines: "while addr + size <= end".
RECURSIVE FullLines(_, _, _)
FullLines(addr, size, end) ==
    IF addr + size <= end
    THEN <<[tag |-> "DUMP", start |-> addr, n |-> size]>> \o FullLines(addr + size, size, end)
    ELSE <<>>

\* Every hexdump_as_bytes(addr, n) call of a run to completion, in order.
HexdumpReads(start, total_size, size) ==
    LET end  == start + total_size
        full == FullLines(start, size, end)
        addr == start + size * Len(full)
        r    == (end - start) % size
    IN  full \o (IF r > 0 THEN <<[tag |-> "DUMP", start |-> addr, n |-> r]>> ELSE <<>>)

\* Hexdump.invoke carries no decorator: it handles KeyboardInterrupt and
\* gdb.MemoryError itself and nothing else. What its reads of target memory
\* can raise is a debugger error (gdb.error, or its subclass gdb.MemoryError)
\* or an interrupt.
HexdumpBody(args, f) ==
    LET reads == HexdumpReads(args.start, args.total_size, LineWidth(args.wide))
        seen  == Prefix(reads, f)
    IN  CASE args.kind = "usage" -> Result(<<>>, "none")
          [] args.kind = "text" -> Result(<<>>, "ValueError")
          [] f.kind = "none" -> Result(reads, "none")
          [] f.kind = "KeyboardInterrupt" -> Result(Append(seen, Line("Interrupt")), "none")
          [] f.kind = "gdb.MemoryError" ->
                Result(Append(seen, Line("Error accessing memory")), "none")
          [] OTHER -> Result(seen, f.kind)

HexdumpFaults(args) ==
    IF args.kind # "addr" THEN {NoFault} ELSE
    {NoFault}
    \cup { Fault(k, "traversal", i) : k \in {"gdb.error", "gdb.MemoryError", "KeyboardInterrupt"},
           i \in 0..(Len(HexdumpReads(args.start, args.total_size, LineWidth(args.wide))) - 1) }

HexArgs(start, total_size, wide) ==
    [kind |-> "addr", start |-> start, total_size |-> total_size, wide |-> wide]

Hexdump(args, f) ==
    /\ Invoke("hexdump", args, f, HexdumpBody(args, f))
    /\ UNCHANGED <<arenas, cur_arena, snapshots>>

----------------------------------------------------------------------------
(* heap arenas, heap arena *)

ArenaAddress(arena) == arena[1].address

HeapArenasBody(as, f) ==
    LET seen == Prefix(as, f)
    IN  Result([n \in 1..Len(seen) |->
                   [tag |-> "Arena", i |-> n - 1, start |-> ArenaAddress(seen[n])]], f.kind)

HeapArenas(f) ==
    /\ Invoke("heap arenas", NoArgs, f, Decorated(HeapArenasBody(arenas, f)))
    /\ UNCHANGED <<arenas, cur_arena, snapshots>>

\* Python's list[i]: a negative i counts from the end of the list.
PyIndex(n, i) ==
    IF 0 <= i /\ i < n THEN i
    ELSE IF -n <= i /\ i < 0 THEN n + i
    ELSE -1

\* arena_num = int(args); cur_arena = arenas[arena_num]: ValueError and
\* IndexError are caught by neither decorator.
HeapArenaSelectBody(as, args, f) ==
    CASE f.kind # "none" -> Result(<<>>, f.kind)
      [] args.kind = "text" -> Result(<<>>, "ValueError")
      [] PyIndex(Len(as), args.val) = -1 -> Result(<<>>, "IndexError")
      [] OTHER -> Result(<<[tag |-> "Arena set to",
                            start |-> ArenaAddress(as[PyIndex(Len(as), args.val) + 1])]>>, "none")

HeapArenaSelected(as, cur, args, f) ==
    IF f.kind = "none" /\ args.kind = "int" /\ PyIndex(Len(as), args.val) # -1
    THEN PyIndex(Len(as), args.val)
    ELSE cur

ArenaArgs ==
    { [kind |-> "int", val |-> v] : v \in -3..3 } \cup { [kind |-> "text", val |-> 0] }

HeapArenaSelect(args, f) ==
    /\ Invoke("heap arena", args, f, Decorated(HeapArenaSelectBody(arenas, args, f)))
    /\ cur_arena' = HeapArenaSelected(arenas, cur_arena, args, f)
    /\ UNCHANGED <<arenas, snapshots>>

----------------------------------------------------------------------------
(* The session: any command, with any input, at any time *)

Names == {"a"}

Init ==
    /\ arenas = <<MainArena, ThreadArena>>
    /\ cur_arena = 0
    /\ snapshots = <<>>
    /\ cmd = [name |-> "(none)", args |-> NoArgs, fault |-> NoFault]
    /\ out = <<>>
    /\ raised = "none"

Interrupt(seq) == LoopFaults(seq, {"KeyboardInterrupt"})

\* A fault before the command has produced anything.
SetupFaults(kinds) == {NoFault} \cup { Fault(k, "setup", 0) : k \in kinds }

\* In the session, 'heap search' is asked for an address inside the first
\* chunk, for the last byte of the last chunk and for one outside the arena.
SessionSearches(arena) ==
    { args \in SearchInputs(arena) :
        args.addr \in {arena[1].address + 8,
                       arena[Len(arena)].address + arena[Len(arena)].size - 1,
                       20480} }

SearchFaults(arena, args) ==
    IF args.kind = "addr" /\ ~args.before /\ ~args.after /\ args.addr = arena[1].address + 8
    THEN LoopFaults(iter_chunks(arena), AnyFault)
    ELSE {NoFault}

ObjdumpInputs ==
    { [kind |-> "addr", addr |-> 4096, total_size |-> t] : t \in {0, 16} }
    \cup { [kind |-> k, addr |-> 0, total_size |-> 0] : k \in {"usage", "text"} }

HexdumpInputs ==
    { HexArgs(4096, t, w) : t \in {0, 16, 40}, w \in BOOLEAN }
    \cup { [kind |-> k, start |-> 0, total_size |-> 0, wide |-> FALSE] : k \in {"usage", "text"} }

ArenaFaults(args) ==
    IF args.kind = "int" /\ args.val = 1 THEN SetupFaults(Recoverable) ELSE {NoFault}

Next ==
    \/ \E f \in HeapFaults(ms) : Heap(f)
    \/ \E f \in LoopFaults(iter_chunks(ms), AnyFault) : HeapSizes(f)
    \/ \E f \in LoopFaults(iter_chunks(ms), AnyFault) : HeapUsed(f)
    \/ \E f \in LoopFaults(iter_free_chunks(ms), AnyFault) : HeapFree(f)
    \/ \E f \in LoopFaults(iter_chunks(ms), AnyFault) : HeapAll(f)
    \/ \E f \in Interrupt(snapshots) : HeapLog(f)
    \/ \E name \in Names, f \in SetupFaults(AnyFault) : HeapLabel(name, f)
    \/ \E f \in SetupFaults(AnyFault) : HeapDiff(f)
    \/ \E q \in {"size > 16", "malformed"}, f \in SetupFaults(AnyFault) : HeapSelect(q, f)
    \/ \E args \in SessionSearches(ms) \cup BadArgs :
          \E f \in SearchFaults(ms, args) : HeapSearch(args, f)
    \/ \E text \in Names : HeapChunk(text)
    \/ \E args \in ObjdumpInputs : \E f \in ObjdumpFaults(args) : Objdump(args, f)
    \/ \E args \in HexdumpInputs : \E f \in HexdumpFaults(args) : Hexdump(args, f)
    \/ \E f \in LoopFaults(arenas, AnyFault) : HeapArenas(f)
    \/ \E args \in ArenaArgs : \E f \in ArenaFaults(args) : HeapArenaSelect(args, f)

Spec == Init /\ [][Next]_vars

----------------------------------------------------------------------------
(* One arena of every shape, and 'heap' reporting on it: to completion, or *)
(* interrupted anywhere in its loop                                        *)

Idle ==
    /\ cur_arena = 0
    /\ snapshots = <<>>
    /\ cmd = [name |-> "(none)", args |-> NoArgs, fault |-> NoFault]
    /\ out = <<>>
    /\ raised = "none"

InitHeap ==
    /\ arenas \in { <<a>> : a \in Layouts(MaxChunks) }
    /\ Idle

HeapInterrupts(arena) ==
    {NoFault}
    \cup { Fault("KeyboardInterrupt", "aggregation", m) :
             m \in 0..(4 * Len(lazily_get_usage_list(arena))) }

NextHeap == \E f \in HeapInterrupts(ms) : Heap(f)

SpecHeap == InitHeap /\ [][NextHeap]_vars

----------------------------------------------------------------------------
(* One arena of every shape, and 'heap search' for every address of interest *)

SearchKinds == { k \in ChunkKinds : k.category \in {NoCategory, Category("python", "str", None)} }

SearchLayouts(n) ==
    UNION { { MkArena(4096, ks) : ks \in [1..k -> SearchKinds] } : k \in 1..n }

InitSearch ==
    /\ arenas \in { <<a>> : a \in SearchLayouts(MaxSearchChunks) }
    /\ Idle

NextSearch == \E args \in SearchInputs(ms) : HeapSearch(args, NoFault)

SpecSearch == InitSearch /\ [][NextSearch]_vars

----------------------------------------------------------------------------
(* 'hexdump' for every start, total size (negative ones included) and width *)

DumpInputs ==
    { HexArgs(start, t, w) : start \in {4096, 4099}, t \in (-MaxDump)..MaxDump, w \in BOOLEAN }

InitHexdump ==
    /\ arenas = <<MainArena, ThreadArena>>
    /\ Idle

NextHexdump == \E args \in DumpInputs : Hexdump(args, NoFault)

SpecHexdump == InitHexdump /\ [][NextHexdump]_vars

----------------------------------------------------------------------------
(* Properties *)

Tagged(lines, tag) == SelectSeq(lines, LAMBDA l : l.tag = tag)

Completed(name) == cmd.name = name /\ cmd.fault = NoFault

\* C1: an argument of 'heap arena' that is no index into the arena list (an
\* integer outside 0..len(arenas)-1, negative ones included, or text that is
\* no integer) is reported as an error and leaves the selection as it was.
C1_InvalidIndexIgnored ==
    [][ (/\ cmd'.name = "heap arena"
         /\ cmd'.fault = NoFault
         /\ ~(cmd'.args.kind = "int" /\ cmd'.args.val \in 0..(Len(arenas) - 1)))
        => (/\ cur_arena' = cur_arena
            /\ (raised' # "none" \/ Tagged(out', "Arena set to") = <<>>)) ]_vars

\* C2: the history changes only in a 'heap label' step, which appends exactly
\* one snapshot to it, and the selection changes only in a 'heap arena' step;
\* every other command, completed, failed or interrupted, leaves both.
C2_OnlyLabelAndArenaMutate ==
    [][ /\ (snapshots' # snapshots =>
               /\ cmd'.name = "heap label"
               /\ Len(snapshots') = Len(snapshots) + 1
               /\ SubSeq(snapshots', 1, Len(snapshots)) = snapshots)
        /\ (cur_arena' # cur_arena => cmd'.name = "heap arena") ]_vars

\* 'heap diff' has compared a recorded snapshot with the current state.
C2_Witness ==
    /\ Completed("heap diff")
    /\ Len(snapshots) >= 1
    /\ Tagged(out, "Changes") # <<>>
    /\ out[1].stats.size # 0

\* C3: with snapshots s1..sn recorded, 'heap log' prints the entries newest
\* first, numbers sk with label k, follows every entry k > 1 with the Diff
\* from s(k-1) to sk and the oldest entry with none; with no history it
\* prints only "(no history)".
C3_LogNewestFirst ==
    Completed("heap log") =>
        LET n      == Len(snapshots)
            labels == Tagged(out, "Label")
            diffs  == Tagged(out, "Diff")
        IN  /\ raised = "none"
            /\ n = 0 => out = <<[tag |-> "(no history)"]>>
            /\ n > 0 =>
                /\ Len(labels) = n
                /\ Len(diffs) = n - 1
                /\ Len(out) = 2 * n - 1
                /\ \A j \in 1..n :
                      LET k == n - j + 1
                      IN  /\ out[2 * j - 1].tag = "Label"
                          /\ out[2 * j - 1].i = k
                          /\ out[2 * j - 1].name = snapshots[k].name
                          /\ out[2 * j - 1].time = snapshots[k].time
                          /\ out[2 * j - 1].size = snapshots[k].size
                          /\ out[2 * j - 1].count = snapshots[k].count
                          /\ k > 1 =>
                                /\ out[2 * j].tag = "Diff"
                                /\ out[2 * j].stats.count =
                                      snapshots[k].count - snapshots[k - 1].count
                                /\ out[2 * j].stats.size =
                                      snapshots[k].size - snapshots[k - 1].size

\* 'heap log' has printed three entries whose sizes differ from one to the next.
C3_Witness ==
    /\ Completed("heap log")
    /\ Len(snapshots) = 3
    /\ snapshots[1].size # snapshots[2].size
    /\ snapshots[2].size # snapshots[3].size
    /\ Len(Tagged(out, "Diff")) = 2

CategoriesOf(usage_list) == { usage_list[i].category : i \in 1..Len(usage_list) }

CountIn(usage_list, c) == Cardinality({ i \in 1..Len(usage_list) : usage_list[i].category = c })

RECURSIVE BytesIn(_, _, _)
BytesIn(usage_list, c, n) ==
    IF n = 0 THEN 0
    ELSE BytesIn(usage_list, c, n - 1)
         + (IF usage_list[n].category = c THEN usage_list[n].size ELSE 0)

RowIs(row, c) ==
    /\ row.domain = c.domain
    /\ row.kind = c.kind
    /\ row.detail = (IF c.detail = "None" THEN "" ELSE c.detail)

\* C4: the 'heap' report has one row per distinct category, holding the number
\* and the summed size of the usages of that category, the rows in
\* non-increasing order of summed size, and ends with one TOTAL row holding
\* the number of usages and the sum of their sizes.
C4_ReportAggregates ==
    Completed("heap") =>
        LET usage_list == lazily_get_usage_list(ms)
            rows       == Tagged(out, "ROW")
            cats       == CategoriesOf(usage_list)
        IN  /\ raised = "none"
            /\ Len(out) = Len(rows) + 1
            /\ SubSeq(out, 1, Len(rows)) = rows
            /\ Len(rows) = Cardinality(cats)
            /\ \A c \in cats :
                  \E i \in 1..Len(rows) :
                      /\ RowIs(rows[i], c)
                      /\ rows[i].count = CountIn(usage_list, c)
                      /\ rows[i].size = BytesIn(usage_list, c, Len(usage_list))
            /\ \A i, j \in 1..Len(rows) : i < j => rows[i].size >= rows[j].size
            /\ out[Len(out)].tag = "TOTAL"
            /\ out[Len(out)].count = Len(usage_list)
            /\ out[Len(out)].size = SumUsage(usage_list, Len(usage_list))

\* 'heap' has reported on three usages of two categories, the category met
\* first being the smaller one.
C4_Witness ==
    /\ Completed("heap")
    /\ Len(lazily_get_usage_list(ms)) = 3
    /\ Len(Tagged(out, "ROW")) = 2
    /\ out[1].count = 2
    /\ out[1].size > out[2].size
    /\ ~RowIs(out[1], lazily_get_usage_list(ms)[1].category)

\* How many of the chunks/usages the traversal had produced the report of an
\* interrupted command covers.
Covered ==
    CASE cmd.name = "heap" ->
            IF Tagged(out, "TOTAL") = <<>> THEN 0 ELSE Tagged(out, "TOTAL")[1].count
      [] cmd.name = "heap sizes" ->
            IF Tagged(out, "TOTAL") = <<>> THEN 0 ELSE Tagged(out, "TOTAL")[1].count
      [] cmd.name = "heap used" -> Len(Tagged(out, "USED"))
      [] cmd.name = "heap free" -> Len(Tagged(out, "FREE"))
      [] cmd.name = "heap all" -> Len(Tagged(out, "CHUNK"))
      [] OTHER -> Len(Tagged(out, "BLOCK"))

\* How many of them it has to cover: of the first cmd.fault.at produced, those
\* the command reports on.
Produced ==
    LET seen == SubSeq(ms, 1, cmd.fault.at)
    IN  CASE cmd.name \in {"heap", "heap free", "heap all"} -> cmd.fault.at
          [] cmd.name \in {"heap sizes", "heap used"} ->
                Cardinality({ i \in 1..Len(seen) : seen[i].inuse })
          [] OTHER -> Cardinality({ i \in 1..Len(seen) : Contains(seen[i], cmd.args.addr) })

\* C5: an interrupt in the middle of the traversal of 'heap', 'heap sizes',
\* 'heap used', 'heap free', 'heap all' or 'heap search' does not leave the
\* command, and the report covers exactly what the traversal had produced.
C5_InterruptKeepsPartialReport ==
    (/\ cmd.name \in {"heap", "heap sizes", "heap used", "heap free", "heap all", "heap search"}
     /\ cmd.fault.kind = "KeyboardInterrupt"
     /\ cmd.fault.phase = "traversal")
    => (raised = "none" /\ Covered = Produced)

\* The indices of the chunks of the current arena that contain the address asked for.
Hits == { i \in 1..Len(ms) : ms[i].address <= cmd.args.addr
                              /\ cmd.args.addr < ms[i].address + ms[i].size }

\* The search ran to its end: it did not have to read past the arena's last
\* chunk, or what lies there was readable.
SearchRan ==
    /\ Completed("heap search")
    /\ cmd.args.kind = "addr"
    /\ ~(cmd.args.after /\ Len(ms) \in Hits /\ ~cmd.args.beyond.readable)

\* C6: 'heap search a' on a well-formed arena reports exactly the one chunk c
\* with c.address <= a < c.address + c.size, with that chunk's in-use flag and
\* size, and reports nothing, without an error, when no chunk contains a.
C6_SearchFindsContainingChunk ==
    SearchRan =>
        LET blocks == Tagged(out, "BLOCK")
        IN  /\ raised = "none"
            /\ Hits = {} => out = <<>>
            /\ Hits # {} =>
                  /\ Cardinality(Hits) = 1
                  /\ Len(blocks) = 1
                  /\ \A i \in Hits :
                        /\ blocks[1].start = ms[i].address
                        /\ blocks[1].end = ms[i].address + ms[i].size - 1
                        /\ blocks[1].size = ms[i].size
                        /\ blocks[1].inuse = ms[i].inuse

\* 'heap search' has found an address in the first chunk's last byte, with
\* another chunk right behind it, and in another state has found nothing.
C6_Witness ==
    /\ SearchRan
    /\ Len(ms) >= 2
    /\ cmd.args.addr = ms[1].address + ms[1].size - 1
    /\ Len(Tagged(out, "BLOCK")) = 1
    /\ out[1].inuse # ms[2].inuse

\* C7: a recoverable error raised while a command runs (missing debug
\* information, a target-access error, a query parse error) is caught and
\* rendered by the command: none leaves its invoke.
C7_RecoverableErrorsCaught ==
    (\/ cmd.fault.kind \in Recoverable
     \/ (cmd.name = "heap select" /\ cmd.args.text = "malformed"))
    => (raised = "none" /\ Len(out) >= 1)

CategoryRank(row) == <<StrRank(row.domain), StrRank(row.kind), StrRank(row.detail)>>

LexLess(a, b) ==
    \/ a[1] < b[1]
    \/ a[1] = b[1] /\ a[2] < b[2]
    \/ a[1] = b[1] /\ a[2] = b[2] /\ a[3] < b[3]

\* C8: in the 'heap' report, categories of equal summed size appear in
\* lexicographic order of (domain, kind, detail), whatever order the
\* traversal met them in.
C8_TiesLexicographic ==
    Completed("heap") =>
        LET rows == Tagged(out, "ROW")
        IN  \A i, j \in 1..Len(rows) :
               (i < j /\ rows[i].size = rows[j].size)
               => LexLess(CategoryRank(rows[i]), CategoryRank(rows[j]))

\* C9: asked for a neighbour of the chunk found, 'heap search' also reports
\* it: the successor with the 'after' option, the predecessor with 'before',
\* each with its own start, end (start + its size - 1), size and in-use flag.
C9_NeighboursDescribed ==
    SearchRan =>
        \A i \in Hits :
           /\ (cmd.args.after /\ i < Len(ms)) =>
                 \E k \in 1..Len(out) :
                    /\ out[k].tag = "NEXT"
                    /\ out[k].start = ms[i + 1].address
                    /\ out[k].end = ms[i + 1].address + ms[i + 1].size - 1
                    /\ out[k].size = ms[i + 1].size
                    /\ out[k].inuse = ms[i + 1].inuse
           /\ (cmd.args.before /\ i > 1) =>
                 \E k \in 1..Len(out) :
                    /\ out[k].tag \notin {"BLOCK", "NEXT"}
                    /\ out[k].start = ms[i - 1].address
                    /\ out[k].end = ms[i - 1].address + ms[i - 1].size - 1
                    /\ out[k].size = ms[i - 1].size
                    /\ out[k].inuse = ms[i - 1].inuse

RECURSIVE SumField(_, _, _)
SumField(rows, n, field) ==
    IF n = 0 THEN 0 ELSE SumField(rows, n - 1, field) + rows[n][field]

\* C10: when an interrupt arrives anywhere in the aggregation loop of 'heap',
\* the table is still rendered and is consistent: every category with a byte
\* total has a count, the TOTAL count is the sum of the rows' counts and the
\* TOTAL size the sum of the rows' sizes.
C10_InterruptedReportConsistent ==
    (/\ cmd.name = "heap"
     /\ cmd.fault.kind = "KeyboardInterrupt"
     /\ cmd.fault.phase = "aggregation")
    => LET rows == Tagged(out, "ROW")
       IN  /\ raised = "none"
           /\ Len(out) = Len(rows) + 1
           /\ out[Len(out)].tag = "TOTAL"
           /\ out[Len(out)].count = SumField(rows, Len(rows), "count")
           /\ out[Len(out)].size = SumField(rows, Len(rows), "size")

\* C11: whatever the start, the total size (0, no multiple of the line
\* width, negative) and the line width, the byte ranges 'hexdump' reads are
\* consecutive, do not overlap and together are exactly
\* [start, start + total_size): no byte outside it is read, and nothing is
\* read when total_size <= 0.
C11_ReadsTileRange ==
    (Completed("hexdump") /\ cmd.args.kind = "addr") =>
        LET reads == Tagged(out, "DUMP")
            total == IF cmd.args.total_size > 0 THEN cmd.args.total_size ELSE 0
        IN  /\ raised = "none"
            /\ \A i \in 1..Len(reads) : reads[i].n > 0
            /\ reads # <<>> => reads[1].start = cmd.args.start
            /\ \A i \in 1..(Len(reads) - 1) : reads[i + 1].start = reads[i].start + reads[i].n
            /\ SumField(reads, Len(reads), "n") = total
            /\ cmd.args.total_size <= 0 => reads = <<>>

============================================================================
